---- MODULE Spec2Model ----
(***************************************************************************)
(* Model of the two FastAPI applications of the repository:                *)
(*   main.py     - the pool store (update_pool, query_pool) and the        *)
(*                 quantile function calculate_quantile_from_scratch;      *)
(*   semantic.py - the book list db_books and its create / update /        *)
(*                 delete handlers.                                        *)
(* Python lists are objects: `heap` maps a reference to the content of a   *)
(* list object, and `pools` maps a pool id to a reference, so that two     *)
(* names for one list (aliasing) are visible in the model.                 *)
(* Floats are modelled by exact rationals with denominator Hundred: a      *)
(* quantile q is carried as the integer Hundred * q, a percentile as an    *)
(* integer number of percent.                                              *)
(***************************************************************************)
EXTENDS Integers, Sequences, FiniteSets, TLC

VARIABLES
    heap,           \* list objects: heap[r] is the content of the list with reference r
    requests,       \* PoolUpdateRequest objects built so far: [pool_id, pool_values (a reference)]
    pools,          \* main.py `pools`: pool id -> reference of the stored list
    request,        \* the request handled by the last call of main.py
    response,       \* the response (or HTTP error) of the last call of main.py
    written,        \* history: pool id -> concatenation of every values list written to it
    nCalls,         \* number of handler calls of main.py so far
    nMutations,     \* number of times a caller changed a list it still holds
    data,           \* input of calculate_quantile_from_scratch (quantile specification)
    percentile,     \* first percentile given to calculate_quantile_from_scratch
    percentile2,    \* second percentile given to calculate_quantile_from_scratch
    quantile,       \* result for percentile
    quantile2,      \* result for percentile2
    qpc,            \* "start" before the two evaluations, "done" after
    db_books,       \* semantic.py `db_books`
    book_request,   \* the request handled by the last call of semantic.py
    book_response,  \* the response (or HTTP error) of the last call of semantic.py
    nBookCalls      \* number of handler calls of semantic.py so far

storeVars == <<heap, requests, pools, request, response, written, nCalls, nMutations>>
quantileVars == <<data, percentile, percentile2, quantile, quantile2, qpc>>
bookVars == <<db_books, book_request, book_response, nBookCalls>>
vars == <<storeVars, quantileVars, bookVars>>

----------------------------------------------------------------------------
(* Bounds and input sets *)

MaxCalls == 4
MaxMutations == 2
MaxLen == 3
MaxBookCalls == 4

PoolIds == {1, 2}
ValueLists == {<<>>, <<1, 2>>, <<3, 4>>, <<4, 1>>}
QueryPercentiles == {0, 25, 50, 100}
MutationValues == {9}

SampleValues == {-2, 0, 3}
Percentiles == {1, 10, 25, 33, 50, 66, 75, 90, 99}

RequestBookIds == 1..5
CreateInputs ==
    {[title |-> "New", author |-> "Anon", year |-> 2000],
     [title |-> "Other", author |-> "Anon", year |-> 2001]}
\* UpdateBook bodies: only the fields that were sent (exclude_unset=True)
UpdateInputs ==
    {<<>>,
     ("title" :> "Upd"),
     ("year" :> 1999),
     ("title" :> "Upd") @@ ("author" :> "Ed") @@ ("year" :> 1999)}

Hundred == 100

----------------------------------------------------------------------------
(* Helpers for Python built-ins *)

RECURSIVE insort(_, _)
insort(x, s) ==
    IF s = <<>> THEN <<x>>
    ELSE IF x < Head(s) THEN <<x>> \o s
    ELSE <<Head(s)>> \o insort(x, Tail(s))

RECURSIVE sorted(_)
sorted(s) ==
    IF s = <<>> THEN <<>> ELSE insort(s[Len(s)], sorted(SubSeq(s, 1, Len(s) - 1)))

RECURSIVE SeqsUpTo(_, _)
SeqsUpTo(S, n) ==
    IF n = 0 THEN {<<>>}
    ELSE LET shorter == SeqsUpTo(S, n - 1)
         IN shorter \cup {Append(s, x) : s \in {t \in shorter : Len(t) = n - 1}, x \in S}

SeqMin(s) == CHOOSE x \in {s[i] : i \in DOMAIN s} : \A j \in DOMAIN s : x <= s[j]
SeqMax(s) == CHOOSE x \in {s[i] : i \in DOMAIN s} : \A j \in DOMAIN s : x >= s[j]

----------------------------------------------------------------------------
(* main.py: the quantile function *)

\* percentile: float = Field(..., gt=0, lt=100)
ValidPercentile(p) == p > 0 /\ p < 100

\* Variant: the weight is the whole rank, not its fractional part.
calculate_quantile_whole_rank_weight(d, p) ==
    IF d = <<>> THEN [error |-> TRUE]
    ELSE LET sorted_data == sorted(d)
             n == Len(sorted_data)
             rank100 == p * (n - 1)
         IN IF rank100 % Hundred = 0
            THEN [error |-> FALSE,
                  value |-> Hundred * sorted_data[(rank100 \div Hundred) + 1]]
            ELSE LET lower_value == sorted_data[(rank100 \div Hundred) + 1]
                     upper_value == sorted_data[(rank100 \div Hundred) + 2]
                 IN [error |-> FALSE,
                     value |-> Hundred * lower_value
                               + rank100 * (upper_value - lower_value)]

\* Variant: the samples are indexed in stored order, without sorting.
calculate_quantile_unsorted(d, p) ==
    IF d = <<>> THEN [error |-> TRUE]
    ELSE LET n == Len(d)
             rank100 == p * (n - 1)
         IN IF rank100 % Hundred = 0
            THEN [error |-> FALSE, value |-> Hundred * d[(rank100 \div Hundred) + 1]]
            ELSE LET lower_value == d[(rank100 \div Hundred) + 1]
                     upper_value == d[(rank100 \div Hundred) + 2]
                     weight100 == rank100 - Hundred * (rank100 \div Hundred)
                 IN [error |-> FALSE,
                     value |-> Hundred * lower_value
                               + weight100 * (upper_value - lower_value)]

\* The result is [error |-> TRUE] for the ValueError, else [error |-> FALSE,
\* value |-> Hundred * q] for the returned float q.
calculate_quantile_from_scratch(d, p) ==
    IF d = <<>> THEN [error |-> TRUE]
    ELSE LET sorted_data == sorted(d)
             n == Len(sorted_data)
             rank100 == p * (n - 1)             \* Hundred * rank
         IN IF rank100 % Hundred = 0
            THEN [error |-> FALSE,
                  value |-> Hundred * sorted_data[(rank100 \div Hundred) + 1]]
            ELSE LET lower_index == rank100 \div Hundred          \* math.floor(rank)
                     upper_index == (rank100 \div Hundred) + 1    \* math.ceil(rank)
                     lower_value == sorted_data[lower_index + 1]
                     upper_value == sorted_data[upper_index + 1]
                     weight100 == rank100 - Hundred * lower_index \* Hundred * weight
                 IN [error |-> FALSE,
                     value |-> Hundred * lower_value
                               + weight100 * (upper_value - lower_value)]

----------------------------------------------------------------------------
(* main.py: the pool store *)

Pool(k) == heap[pools[k]]
StoreContents == [k \in DOMAIN pools |-> heap[pools[k]]]

\* PoolUpdateRequest(poolId=k, poolValues=vals): validation builds the request
\* object with a list of its own.
PoolUpdateRequest(k, vals) == [pool_id |-> k, pool_values |-> Len(heap) + 1]

\* Variant: new values are put in front of the existing samples.
update_pool_prepend(req, h) ==
    IF req.pool_id \in DOMAIN pools
    THEN /\ heap' = [h EXCEPT ![pools[req.pool_id]] = h[req.pool_values] \o @]
         /\ pools' = pools
         /\ response' = [code |-> 200, status |-> "appended"]
    ELSE /\ heap' = h
         /\ pools' = pools @@ (req.pool_id :> req.pool_values)
         /\ response' = [code |-> 200, status |-> "inserted"]

\* Variant: the append loses the last of the new values.
update_pool_drop_last(req, h) ==
    IF req.pool_id \in DOMAIN pools
    THEN /\ heap' = [h EXCEPT ![pools[req.pool_id]] =
                        @ \o SubSeq(h[req.pool_values], 1, Len(h[req.pool_values]) - 1)]
         /\ pools' = pools
         /\ response' = [code |-> 200, status |-> "appended"]
    ELSE /\ heap' = h
         /\ pools' = pools @@ (req.pool_id :> req.pool_values)
         /\ response' = [code |-> 200, status |-> "inserted"]

\* Variant: a write to an existing pool replaces its list.
update_pool_overwrite(req, h) ==
    IF req.pool_id \in DOMAIN pools
    THEN /\ heap' = h
         /\ pools' = [pools EXCEPT ![req.pool_id] = req.pool_values]
         /\ response' = [code |-> 200, status |-> "appended"]
    ELSE /\ heap' = h
         /\ pools' = pools @@ (req.pool_id :> req.pool_values)
         /\ response' = [code |-> 200, status |-> "inserted"]

\* The handler, on request object req, with h the heap at the time of the call.
update_pool(req, h) ==
    LET pool_id == req.pool_id
        values_to_add == req.pool_values          \* a reference, not a copy
    IN IF pool_id \in DOMAIN pools
       THEN /\ heap' = [h EXCEPT ![pools[pool_id]] = @ \o h[values_to_add]]
            /\ pools' = pools
            /\ response' = [code |-> 200, status |-> "appended"]
       ELSE /\ heap' = h
            /\ pools' = pools @@ (pool_id :> values_to_add)
            /\ response' = [code |-> 200, status |-> "inserted"]

\* Variant: the lookup creates an empty pool for an unknown id
\* (pools.setdefault(pool_id, [])).
query_pool_setdefault(pool_id, p) ==
    IF pool_id \notin DOMAIN pools
    THEN /\ heap' = Append(heap, <<>>)
         /\ pools' = pools @@ (pool_id :> Len(heap) + 1)
         /\ response' = [code |-> 400, detail |-> "pool_empty"]
    ELSE LET pool_values == heap[pools[pool_id]]
             count == Len(pool_values)
         IN IF count = 0
            THEN /\ response' = [code |-> 400, detail |-> "pool_empty"]
                 /\ UNCHANGED <<heap, pools>>
            ELSE LET quantile_value == calculate_quantile_from_scratch(pool_values, p)
                 IN /\ response' =
                          IF quantile_value.error
                          THEN [code |-> 400, detail |-> "value_error"]
                          ELSE [code |-> 200,
                                calculatedQuantile |-> quantile_value.value,
                                totalCount |-> count]
                    /\ UNCHANGED <<heap, pools>>

\* Variant: no store-level check of count == 0.
query_pool_no_empty_check(pool_id, p) ==
    IF pool_id \notin DOMAIN pools
    THEN /\ response' = [code |-> 404, detail |-> "not_found"]
         /\ UNCHANGED <<heap, pools>>
    ELSE LET pool_values == heap[pools[pool_id]]
             count == Len(pool_values)
             quantile_value == calculate_quantile_from_scratch(pool_values, p)
         IN /\ response' =
                  IF quantile_value.error
                  THEN [code |-> 400, detail |-> "value_error"]
                  ELSE [code |-> 200,
                        calculatedQuantile |-> quantile_value.value,
                        totalCount |-> count]
            /\ UNCHANGED <<heap, pools>>

\* Variant: the stored list is sorted in place (pool_values.sort()).
query_pool_sort_in_place(pool_id, p) ==
    IF pool_id \notin DOMAIN pools
    THEN /\ response' = [code |-> 404, detail |-> "not_found"]
         /\ UNCHANGED <<heap, pools>>
    ELSE LET pool_values == heap[pools[pool_id]]
             count == Len(pool_values)
         IN IF count = 0
            THEN /\ response' = [code |-> 400, detail |-> "pool_empty"]
                 /\ UNCHANGED <<heap, pools>>
            ELSE LET quantile_value == calculate_quantile_from_scratch(pool_values, p)
                 IN /\ response' =
                          IF quantile_value.error
                          THEN [code |-> 400, detail |-> "value_error"]
                          ELSE [code |-> 200,
                                calculatedQuantile |-> quantile_value.value,
                                totalCount |-> count]
                    /\ heap' = [heap EXCEPT ![pools[pool_id]] = sorted(@)]
                    /\ UNCHANGED pools

\* The handler, on a validated PoolQueryRequest.
query_pool(pool_id, p) ==
    IF pool_id \notin DOMAIN pools
    THEN /\ response' = [code |-> 404, detail |-> "not_found"]
         /\ UNCHANGED <<heap, pools>>
    ELSE LET pool_values == heap[pools[pool_id]]
             count == Len(pool_values)
         IN IF count = 0
            THEN /\ response' = [code |-> 400, detail |-> "pool_empty"]
                 /\ UNCHANGED <<heap, pools>>
            ELSE LET quantile_value == calculate_quantile_from_scratch(pool_values, p)
                 IN /\ response' =
                          IF quantile_value.error
                          THEN [code |-> 400, detail |-> "value_error"]
                          ELSE [code |-> 200,
                                calculatedQuantile |-> quantile_value.value,
                                totalCount |-> count]
                    /\ UNCHANGED <<heap, pools>>

\* POST /pools/update with a new request object.
SubmitUpdate(k, vals) ==
    /\ nCalls < MaxCalls
    /\ LET req == PoolUpdateRequest(k, vals)
       IN /\ requests' = Append(requests, req)
          /\ update_pool(req, Append(heap, vals))
    /\ request' = [op |-> "update", pool_id |-> k, pool_values |-> vals]
    /\ written' = IF k \in DOMAIN written
                  THEN [written EXCEPT ![k] = @ \o vals]
                  ELSE written @@ (k :> vals)
    /\ nCalls' = nCalls + 1
    /\ UNCHANGED <<nMutations, quantileVars, bookVars>>

\* update_pool called again with a request object the caller kept.
ResubmitUpdate(i) ==
    /\ nCalls < MaxCalls
    /\ i \in DOMAIN requests
    /\ update_pool(requests[i], heap)
    /\ request' = [op |-> "update", pool_id |-> requests[i].pool_id,
                   pool_values |-> heap[requests[i].pool_values]]
    /\ written' = [written EXCEPT ![requests[i].pool_id] =
                       @ \o heap[requests[i].pool_values]]
    /\ nCalls' = nCalls + 1
    /\ UNCHANGED <<requests, nMutations, quantileVars, bookVars>>

\* POST /pools/query; a percentile outside (0, 100) is rejected by validation
\* before the handler runs.
SubmitQuery(k, p) ==
    /\ nCalls < MaxCalls
    /\ IF ValidPercentile(p)
       THEN query_pool(k, p)
       ELSE /\ response' = [code |-> 422, detail |-> "validation"]
            /\ UNCHANGED <<heap, pools>>
    /\ request' = [op |-> "query", pool_id |-> k, percentile |-> p]
    /\ nCalls' = nCalls + 1
    /\ UNCHANGED <<requests, written, nMutations, quantileVars, bookVars>>

\* A caller that kept request object i appends v to request.pool_values.
CallerMutate(i, v) ==
    /\ nMutations < MaxMutations
    /\ i \in DOMAIN requests
    /\ heap' = [heap EXCEPT ![requests[i].pool_values] = Append(@, v)]
    /\ nMutations' = nMutations + 1
    /\ UNCHANGED <<requests, pools, request, response, written, nCalls,
                   quantileVars, bookVars>>

----------------------------------------------------------------------------
(* main.py: calculate_quantile_from_scratch applied to drawn inputs *)

Evaluate ==
    /\ qpc = "start"
    /\ quantile' = calculate_quantile_from_scratch(data, percentile)
    /\ quantile2' = calculate_quantile_from_scratch(data, percentile2)
    /\ qpc' = "done"
    /\ UNCHANGED <<data, percentile, percentile2, storeVars, bookVars>>

----------------------------------------------------------------------------
(* semantic.py: the book list *)

BookFields == {"id", "title", "author", "year"}

MaxId(db) == CHOOSE m \in {db[i].id : i \in DOMAIN db} : \A j \in DOMAIN db : db[j].id <= m

\* next((i for i, b in enumerate(db_books) if b.id == book_id), None); 0 is None
FirstIndexOf(db, book_id) ==
    IF \E i \in DOMAIN db : db[i].id = book_id
    THEN CHOOSE i \in DOMAIN db :
             /\ db[i].id = book_id
             /\ \A j \in 1..(i - 1) : db[j].id # book_id
    ELSE 0

\* list.remove(book): drops the first element equal to book
ListRemove(db, book) ==
    LET i == CHOOSE j \in DOMAIN db : db[j] = book /\ \A l \in 1..(j - 1) : db[l] # book
    IN SubSeq(db, 1, i - 1) \o SubSeq(db, i + 1, Len(db))

\* current_book.copy(update=update_data)
BookCopy(book, update_data) ==
    [f \in BookFields |-> IF f \in DOMAIN update_data THEN update_data[f] ELSE book[f]]

\* Variant: the new id is the number of books plus one.
create_new_book_by_count(book_data) ==
    LET new_id == Len(db_books) + 1
        new_book == [id |-> new_id, title |-> book_data.title,
                     author |-> book_data.author, year |-> book_data.year]
    IN /\ db_books' = Append(db_books, new_book)
       /\ book_response' = [code |-> 201, book |-> new_book]

create_new_book(book_data) ==
    LET new_id == IF db_books # <<>> THEN MaxId(db_books) + 1 ELSE 1
        new_book == [id |-> new_id, title |-> book_data.title,
                     author |-> book_data.author, year |-> book_data.year]
    IN /\ db_books' = Append(db_books, new_book)
       /\ book_response' = [code |-> 201, book |-> new_book]

update_book_info(book_id, book_data) ==
    LET book_index == FirstIndexOf(db_books, book_id)
    IN IF book_index = 0
       THEN /\ book_response' = [code |-> 404, detail |-> "Book not found"]
            /\ UNCHANGED db_books
       ELSE LET current_book == db_books[book_index]
                updated_book == BookCopy(current_book, book_data)
            IN /\ db_books' = [db_books EXCEPT ![book_index] = updated_book]
               /\ book_response' = [code |-> 200, book |-> updated_book]

delete_book_by_id(book_id) ==
    LET book_index == FirstIndexOf(db_books, book_id)
    IN IF book_index = 0
       THEN /\ book_response' = [code |-> 404, detail |-> "Book not found"]
            /\ UNCHANGED db_books
       ELSE /\ db_books' = ListRemove(db_books, db_books[book_index])
            /\ book_response' = [code |-> 204]

CreateBook(book_data) ==
    /\ nBookCalls < MaxBookCalls
    /\ create_new_book(book_data)
    /\ book_request' = [op |-> "create", book_data |-> book_data]
    /\ nBookCalls' = nBookCalls + 1
    /\ UNCHANGED <<storeVars, quantileVars>>

UpdateBook(book_id, book_data) ==
    /\ nBookCalls < MaxBookCalls
    /\ update_book_info(book_id, book_data)
    /\ book_request' = [op |-> "update", book_id |-> book_id, book_data |-> book_data]
    /\ nBookCalls' = nBookCalls + 1
    /\ UNCHANGED <<storeVars, quantileVars>>

DeleteBook(book_id) ==
    /\ nBookCalls < MaxBookCalls
    /\ delete_book_by_id(book_id)
    /\ book_request' = [op |-> "delete", book_id |-> book_id]
    /\ nBookCalls' = nBookCalls + 1
    /\ UNCHANGED <<storeVars, quantileVars>>

----------------------------------------------------------------------------
(* Initial states and specifications *)

InitStore ==
    /\ heap = <<>>
    /\ requests = <<>>
    /\ pools = <<>>
    /\ request = [op |-> "none"]
    /\ response = [code |-> 0]
    /\ written = <<>>
    /\ nCalls = 0
    /\ nMutations = 0

InitQuantileIdle ==
    /\ data = <<>>
    /\ percentile = 50
    /\ percentile2 = 50
    /\ quantile = [error |-> TRUE]
    /\ quantile2 = [error |-> TRUE]
    /\ qpc = "idle"

InitBooks ==
    /\ db_books = <<[id |-> 1, title |-> "Lao Hac", author |-> "Nam Cao", year |-> 1943],
                    [id |-> 2, title |-> "So Do", author |-> "Vu Trong Phung", year |-> 1936],
                    [id |-> 3, title |-> "De Men Phieu Luu Ky", author |-> "To Hoai",
                     year |-> 1941]>>
    /\ book_request = [op |-> "none"]
    /\ book_response = [code |-> 0]
    /\ nBookCalls = 0

Init == InitStore /\ InitQuantileIdle /\ InitBooks

Next ==
    \/ \E k \in PoolIds, vals \in ValueLists : SubmitUpdate(k, vals)
    \/ \E i \in 1..MaxCalls : ResubmitUpdate(i)
    \/ \E k \in PoolIds, p \in QueryPercentiles : SubmitQuery(k, p)

Spec == Init /\ [][Next]_vars

NextCaller ==
    \/ Next
    \/ \E i \in 1..MaxCalls, v \in MutationValues : CallerMutate(i, v)

SpecCaller == Init /\ [][NextCaller]_vars

InitQuantile ==
    /\ InitStore
    /\ InitBooks
    /\ data \in SeqsUpTo(SampleValues, MaxLen)
    /\ percentile \in Percentiles
    /\ percentile2 \in Percentiles
    /\ quantile = [error |-> TRUE]
    /\ quantile2 = [error |-> TRUE]
    /\ qpc = "start"

NextQuantile == Evaluate

SpecQuantile == InitQuantile /\ [][NextQuantile]_vars

NextBooks ==
    \/ \E book_data \in CreateInputs : CreateBook(book_data)
    \/ \E book_id \in RequestBookIds, book_data \in UpdateInputs :
           UpdateBook(book_id, book_data)
    \/ \E book_id \in RequestBookIds : DeleteBook(book_id)

SpecBooks == Init /\ [][NextBooks]_vars

----------------------------------------------------------------------------
(* Claims about the pool store (specification Spec) *)

UpdateStep == nCalls' = nCalls + 1 /\ request'.op = "update"
QueryStep == nCalls' = nCalls + 1 /\ request'.op = "query"
ValidQueryStep == QueryStep /\ ValidPercentile(request'.percentile)

\* C1: every update_pool call reports "inserted" exactly when no pool existed
\* for the pool id just before the call and "appended" otherwise; after an
\* insert the pool equals the given values in order, after an append it equals
\* the previous sequence followed by the given values.
C1_UpdateStatusAndContents ==
    [][UpdateStep =>
        LET k == request'.pool_id
            vals == request'.pool_values
        IN /\ response'.code = 200
           /\ response'.status = (IF k \in DOMAIN pools THEN "appended" ELSE "inserted")
           /\ k \in DOMAIN pools'
           /\ k \notin DOMAIN pools => heap'[pools'[k]] = vals
           /\ k \in DOMAIN pools => heap'[pools'[k]] = heap[pools[k]] \o vals
    ]_vars

C1_Witness ==
    /\ request.op = "update"
    /\ response.status = "appended"
    /\ request.pool_values = <<3, 4>>
    /\ Pool(request.pool_id) = <<4, 1, 3, 4>>

\* C2: the pool stored for a key is the concatenation, in call order, of every
\* values list written to that key, and a successful query returns totalCount
\* equal to the number of samples written to the key so far.
C2_UpsertAccumulation ==
    /\ DOMAIN pools = DOMAIN written
    /\ \A k \in DOMAIN pools : Pool(k) = written[k]
    /\ (request.op = "query" /\ response.code = 200)
           => response.totalCount = Len(written[request.pool_id])

C2_Witness ==
    /\ request.op = "query"
    /\ response.code = 200
    /\ response.totalCount = 4
    /\ written[request.pool_id] = <<1, 2, 3, 4>>
    /\ Pool(request.pool_id) = <<1, 2, 3, 4>>

\* C3: a query with a valid percentile on a pool id never written by
\* update_pool fails with 404, carries no quantile, and leaves the pool mapping
\* and the stored lists unchanged (no entry is created for the pool id).
C3_UnknownPoolNotFound ==
    [][(ValidQueryStep /\ request'.pool_id \notin DOMAIN written) =>
        /\ response'.code = 404
        /\ "calculatedQuantile" \notin DOMAIN response'
        /\ pools' = pools
        /\ heap' = heap
        /\ request'.pool_id \notin DOMAIN pools'
    ]_vars

C3_Witness ==
    /\ request.op = "query"
    /\ ValidPercentile(request.percentile)
    /\ request.pool_id \notin DOMAIN written
    /\ response.code = 404
    /\ DOMAIN pools # {}

\* C4: a query with a valid percentile on a pool that exists but holds zero
\* samples fails with the store-level empty-pool error (400), not with the
\* ValueError of the quantile function, and leaves the store unchanged.
C4_EmptyPoolRejectedByStore ==
    [][(ValidQueryStep /\ request'.pool_id \in DOMAIN written
            /\ written[request'.pool_id] = <<>>) =>
        /\ response' = [code |-> 400, detail |-> "pool_empty"]
        /\ pools' = pools
        /\ heap' = heap
    ]_vars

C4_Witness ==
    /\ request.op = "query"
    /\ ValidPercentile(request.percentile)
    /\ request.pool_id \in DOMAIN pools
    /\ Pool(request.pool_id) = <<>>
    /\ response = [code |-> 400, detail |-> "pool_empty"]
    /\ \E i, j \in DOMAIN requests :
           i # j /\ requests[i].pool_id = request.pool_id
                 /\ requests[j].pool_id = request.pool_id

\* C5: every query, successful or failed, leaves the set of pool keys and each
\* stored sequence (its order included) unchanged, and a query repeated right
\* after itself returns the same response.
C5_QueryReadOnly ==
    [][QueryStep =>
        /\ pools' = pools
        /\ heap' = heap
        /\ request' = request => response' = response
    ]_vars

C5_Witness ==
    /\ request.op = "query"
    /\ response.code = 200
    /\ nCalls >= 3
    /\ Pool(request.pool_id) = <<4, 1, 1, 2>>
    /\ request.percentile = 50
    /\ response.calculatedQuantile = 150

\* C9: a pool key once present is never removed, the length of a pool never
\* decreases, a pool holding a sample never again holds none, and a pool with
\* zero samples has only ever been written empty lists.
C9_PoolLifecycle ==
    /\ [](\A k \in DOMAIN pools : Pool(k) = <<>> => written[k] = <<>>)
    /\ [][/\ DOMAIN pools \subseteq DOMAIN pools'
          /\ \A k \in DOMAIN pools :
                /\ Len(heap'[pools'[k]]) >= Len(heap[pools[k]])
                /\ Len(heap[pools[k]]) > 0 => Len(heap'[pools'[k]]) > 0
       ]_vars

C9_Witness ==
    /\ \E k \in DOMAIN pools : Pool(k) = <<>> /\ k = 1
    /\ \E k \in DOMAIN pools : Len(Pool(k)) = 4
    /\ nCalls = MaxCalls

----------------------------------------------------------------------------
(* Claim about callers that keep their request objects (specification SpecCaller) *)

\* C8: the store exclusively owns the pool contents: a caller changing the
\* values list of a request it passed to update_pool does not change the
\* contents of any stored pool.
C8_StoreOwnsPoolContents ==
    [][nMutations' # nMutations => StoreContents' = StoreContents]_vars

----------------------------------------------------------------------------
(* Claims about the quantile function (specification SpecQuantile) *)

----------------------------------------------------------------------------
(* Claim about the book list (specification SpecBooks) *)

BookIdsOf(db) == [i \in DOMAIN db |-> db[i].id]
BookStep(op) == nBookCalls' = nBookCalls + 1 /\ book_request'.op = op

\* C10: no two books of db_books share an id; create_new_book assigns the
\* largest existing id plus one (1 for an empty list); update_book_info changes
\* neither an id nor the number of books; delete_book_by_id removes exactly the
\* one book with the requested id.
C10_BookIdsUnique ==
    /\ [](\A i, j \in DOMAIN db_books : db_books[i].id = db_books[j].id => i = j)
    /\ [][/\ BookStep("create") =>
                /\ Len(db_books') = Len(db_books) + 1
                /\ SubSeq(db_books', 1, Len(db_books)) = db_books
                /\ db_books'[Len(db_books')].id =
                       (IF db_books = <<>> THEN 1 ELSE MaxId(db_books) + 1)
          /\ BookStep("update") => BookIdsOf(db_books') = BookIdsOf(db_books)
          /\ BookStep("delete") =>
                LET book_id == book_request'.book_id
                IN IF \E i \in DOMAIN db_books : db_books[i].id = book_id
                   THEN /\ book_response'.code = 204
                        /\ db_books' = SelectSeq(db_books, LAMBDA b : b.id # book_id)
                        /\ Len(db_books') = Len(db_books) - 1
                   ELSE /\ book_response'.code = 404
                        /\ db_books' = db_books
       ]_vars

C10_Witness ==
    /\ book_request.op = "create"
    /\ nBookCalls = 4
    /\ Len(db_books) = 1
    /\ db_books[1].id = 1
    /\ db_books[1].title = "New"

====
